---------------------------- MODULE Spec2Model ----------------------------
(***************************************************************************)
(* Model of the tax-insurance-optimizer repository:                        *)
(*   src/src/agents/insurance_recommendation_engine.py  (the engine)       *)
(*   src/src/agents/tax_optimizer_agent.py              (the optimizer)    *)
(*                                                                         *)
(* Money is modelled in whole dollars (integers).  The poverty-level       *)
(* percentage (magi / fpl) * 100 is kept as the exact rational             *)
(* [num |-> magi * 100, den |-> fpl]; for whole-dollar incomes every       *)
(* comparison the code makes on the float agrees with the comparison on    *)
(* the rational (the band edges 100, 150, 200, 250, 400 are exact in       *)
(* binary floating point and any other value is at least 1/fpl away).      *)
(***************************************************************************)
EXTENDS Integers, Sequences, FiniteSets, TLC

(***************************************************************************)
(* Bounds of the model.                                                    *)
(***************************************************************************)
\* incomes on a regular grid: 0, IncomeStep, ..., MaxIncomeSteps * IncomeStep
IncomeStep == 6000
MaxIncomeSteps == 12
\* calls of generate_recommendation in one run of the engine
MaxCalls == 2
\* rows the optimizer's data-entry tables hold in all
MaxRows == 4

(***************************************************************************)
(* Engine: reference data.                                                 *)
(***************************************************************************)
\* FPL_2026: household size -> poverty level, sizes 1..8
FPL_2026 == <<15650, 21150, 26650, 32150, 37650, 43150, 48650, 54150>>

Tiers == {"coverage_gap", "csr_94", "csr_87", "csr_73", "subsidy_only", "no_subsidy"}

\* a percentage as an exact rational, den > 0
Pct(n, d) == [num |-> n, den |-> d]
PctLt(p, k) == p.num < k * p.den
PctLe(p, k) == p.num <= k * p.den
PctGe(p, k) == p.num >= k * p.den
PctGt(p, k) == p.num > k * p.den

\* round(fpl_pct, 1), in tenths of a percentage point (nearest tenth; a
\* whole-dollar income never falls exactly between two tenths)
round1(p) == (2 * 10 * p.num + p.den) \div (2 * p.den)

(***************************************************************************)
(* Engine: calculate_fpl_percentage.                                       *)
(***************************************************************************)
\* a slip that reads the table one entry off
calculate_fpl_percentage_off_by_one(m, h) ==
    LET fpl == IF h + 1 \in DOMAIN FPL_2026 THEN FPL_2026[h + 1] ELSE 15650
    IN  Pct(m * 100, fpl)

\* a slip that takes the table's last entry for a size the table does not hold
calculate_fpl_percentage_last_entry(m, h) ==
    LET fpl == IF h \in DOMAIN FPL_2026 THEN FPL_2026[h] ELSE FPL_2026[Len(FPL_2026)]
    IN  Pct(m * 100, fpl)

calculate_fpl_percentage(m, h) ==
    LET fpl == IF h \in DOMAIN FPL_2026
               THEN FPL_2026[h]
               ELSE 15650
    IN  Pct(m * 100, fpl)

(***************************************************************************)
(* Engine: determine_eligibility_tier.                                     *)
(***************************************************************************)
\* a slip that swaps the labels of two neighbouring bands
determine_eligibility_tier_swapped(fpl_pct) ==
    IF PctLt(fpl_pct, 100) THEN
        [tier |-> "coverage_gap", description |-> "COVERAGE GAP - No ACA subsidies, no Medicaid in Florida!"]
    ELSE IF PctLe(fpl_pct, 150) THEN
        [tier |-> "csr_94", description |-> "BEST: Silver CSR 94% - $0 deductible, lowest copays"]
    ELSE IF PctLe(fpl_pct, 200) THEN
        [tier |-> "csr_73", description |-> "OK: Silver CSR 73% - Standard silver benefits"]
    ELSE IF PctLe(fpl_pct, 250) THEN
        [tier |-> "csr_87", description |-> "GOOD: Silver CSR 87% - Low deductible, good copays"]
    ELSE IF PctLe(fpl_pct, 400) THEN
        [tier |-> "subsidy_only", description |-> "Subsidy only - No cost-sharing reductions"]
    ELSE
        [tier |-> "no_subsidy", description |-> "NO SUBSIDIES - Above 400% FPL"]

determine_eligibility_tier_strict(fpl_pct) ==
    IF PctLt(fpl_pct, 100) THEN
        [tier |-> "coverage_gap", description |-> "COVERAGE GAP - No ACA subsidies, no Medicaid in Florida!"]
    ELSE IF PctLt(fpl_pct, 150) THEN
        [tier |-> "csr_94", description |-> "BEST: Silver CSR 94% - $0 deductible, lowest copays"]
    ELSE IF PctLt(fpl_pct, 200) THEN
        [tier |-> "csr_87", description |-> "GOOD: Silver CSR 87% - Low deductible, good copays"]
    ELSE IF PctLt(fpl_pct, 250) THEN
        [tier |-> "csr_73", description |-> "OK: Silver CSR 73% - Standard silver benefits"]
    ELSE IF PctLt(fpl_pct, 400) THEN
        [tier |-> "subsidy_only", description |-> "Subsidy only - No cost-sharing reductions"]
    ELSE
        [tier |-> "no_subsidy", description |-> "NO SUBSIDIES - Above 400% FPL"]

determine_eligibility_tier(fpl_pct) ==
    IF PctLt(fpl_pct, 100) THEN
        [tier |-> "coverage_gap", description |-> "COVERAGE GAP - No ACA subsidies, no Medicaid in Florida!"]
    ELSE IF PctLe(fpl_pct, 150) THEN
        [tier |-> "csr_94", description |-> "BEST: Silver CSR 94% - $0 deductible, lowest copays"]
    ELSE IF PctLe(fpl_pct, 200) THEN
        [tier |-> "csr_87", description |-> "GOOD: Silver CSR 87% - Low deductible, good copays"]
    ELSE IF PctLe(fpl_pct, 250) THEN
        [tier |-> "csr_73", description |-> "OK: Silver CSR 73% - Standard silver benefits"]
    ELSE IF PctLe(fpl_pct, 400) THEN
        [tier |-> "subsidy_only", description |-> "Subsidy only - No cost-sharing reductions"]
    ELSE
        [tier |-> "no_subsidy", description |-> "NO SUBSIDIES - Above 400% FPL"]

(***************************************************************************)
(* Engine: get_florida_plans.                                              *)
(***************************************************************************)
\* (key_hospitals and notes, fixed lists of text that no decision reads, are left out)
InsurancePlan(plan_type, carrier, plan_name, metal_tier, monthly_premium, deductible, out_of_pocket_max, copay_primary, copay_specialist, includes_dental, includes_vision, network_type, enrollment_deadline, coverage_start) ==
    [plan_type |-> plan_type, carrier |-> carrier, plan_name |-> plan_name,
     metal_tier |-> metal_tier, monthly_premium |-> monthly_premium,
     deductible |-> deductible, out_of_pocket_max |-> out_of_pocket_max,
     copay_primary |-> copay_primary, copay_specialist |-> copay_specialist,
     includes_dental |-> includes_dental, includes_vision |-> includes_vision,
     network_type |-> network_type,
     enrollment_deadline |-> enrollment_deadline, coverage_start |-> coverage_start]

DentalPlan ==
    InsurancePlan("Dental", "Delta Dental / Ameritas", "PPO Dental Plan", "N/A",
                  "$25-45", "$50-100", "$1,500-2,000 annual max", "$0 preventive",
                  "20-50% coinsurance", TRUE, FALSE, "PPO", "December 15", "January 1")

TierPlans(tier) ==
    IF tier \in {"csr_94", "csr_87", "csr_73"} THEN
        << InsurancePlan("ACA Marketplace", "Florida Blue", "BlueOptions Silver PPO",
                         "Silver + CSR",
                         IF tier = "csr_94" THEN "$0-75" ELSE "$50-150",
                         IF tier = "csr_94" THEN "$0" ELSE "$250-1000",
                         IF tier = "csr_94" THEN "$1,350" ELSE "$2,500-4,000",
                         "$5-10", "$10-25", FALSE, TRUE, "PPO", "December 15", "January 1"),
           InsurancePlan("ACA Marketplace", "Ambetter from Sunshine Health", "Secure Care Silver",
                         "Silver + CSR",
                         IF tier = "csr_94" THEN "$0-50" ELSE "$25-100",
                         IF tier = "csr_94" THEN "$0" ELSE "$200-800",
                         IF tier = "csr_94" THEN "$1,350" ELSE "$2,000-3,500",
                         "$5", "$15-30", FALSE, TRUE, "HMO", "December 15", "January 1") >>
    ELSE IF tier = "subsidy_only" THEN
        << InsurancePlan("ACA Marketplace", "Florida Blue", "BlueOptions Silver PPO",
                         "Silver (No CSR)", "$150-300", "$2,000-4,000", "$6,500-8,000",
                         "$30-50", "$50-75", FALSE, TRUE, "PPO", "December 15", "January 1") >>
    ELSE IF tier = "coverage_gap" THEN
        << InsurancePlan("Alternative", "Direct Primary Care", "Concierge/DPC Membership",
                         "N/A", "$75-150", "N/A", "N/A", "$0 (included)", "Pay separately",
                         FALSE, FALSE, "Direct", "Anytime", "Immediately") >>
    ELSE IF tier = "no_subsidy" THEN
        << InsurancePlan("ACA Marketplace (Unsubsidized)", "Florida Blue", "BlueOptions Gold PPO",
                         "Gold", "$400-600", "$0-500", "$4,000-6,000", "$25", "$50",
                         FALSE, TRUE, "PPO", "December 15", "January 1") >>
    ELSE << >>

\* a slip that puts the dental plan first
get_florida_plans_dental_first(tier) == <<DentalPlan>> \o TierPlans(tier)

get_florida_plans(tier) == TierPlans(tier) \o <<DentalPlan>>

(***************************************************************************)
(* Engine: the lists of text.  A line of text is modelled by its wording   *)
(* and, where the code formats a dollar amount into it with ${x:,.2f},     *)
(* by that amount in cents.                                                *)
(***************************************************************************)
Text(t) == [text |-> t, has_amount |-> FALSE, cents |-> 0]
TextAmount(t, dollars) == [text |-> t, has_amount |-> TRUE, cents |-> dollars * 100]

generate_action_items(tier, m) ==
    LET shortfall == 15650 - m
        first == IF tier = "coverage_gap" THEN
                     << TextAmount("URGENT: Increase taxable income by $ to qualify for ACA", shortfall),
                        Text("Review deductions - consider reducing to increase MAGI"),
                        Text("Report all side income, tips, gig work"),
                        Text("DO NOT prepay property taxes or other expenses") >>
                 ELSE
                     << Text("Visit healthcare.gov by December 15"),
                        Text("Have income documentation ready (1099s, rental income)"),
                        Text("Compare at least 3 plans before enrolling"),
                        Text("Check if your doctors are in-network"),
                        Text("Enroll in dental separately (same deadline)") >>
        silver == IF tier \in {"csr_94", "csr_87"} THEN
                     << Text("MUST choose SILVER plan to get cost-sharing reductions"),
                        Text("Bronze/Gold plans do NOT include CSR benefits") >>
                  ELSE << >>
    IN  first \o silver

generate_warnings(tier, m, fpl_pct) ==
    (IF tier = "coverage_gap" THEN
         << Text("FLORIDA COVERAGE GAP: You are NOT eligible for ACA subsidies or Medicaid"),
            Text("Without insurance, a hospital stay could cost $50,000+") >>
     ELSE << >>)
    \o (IF PctGe(fpl_pct, 145) /\ PctLe(fpl_pct, 155) THEN
            << Text("Close to CSR tier boundary - monitor income carefully") >>
        ELSE << >>)
    \o (IF PctGe(fpl_pct, 395) THEN
            << Text("Close to subsidy cliff at 400% FPL - reducing MAGI could save thousands") >>
        ELSE << >>)

\* a slip that reports the size of the gap as the savings
generate_optimization_tips_by_gap(tier, m, fpl_pct) ==
    IF tier = "coverage_gap" THEN
        [tips |-> << TextAmount("INCREASE income by $ - reduces deductions or report more income", 15650 - m),
                     Text("Consider Roth IRA conversion to increase MAGI (careful with taxes)") >>,
         savings |-> 15650 - m]
    ELSE IF tier = "subsidy_only" THEN
        [tips |-> << TextAmount("REDUCE MAGI by $ to qualify for CSR 73%", m - 39125) >>,
         savings |-> m - 39125]
    ELSE IF tier = "no_subsidy" THEN
        [tips |-> << TextAmount("REDUCE MAGI by $ to qualify for premium subsidies", m - 62600) >>,
         savings |-> m - 62600]
    ELSE
        [tips |-> << >>, savings |-> 0]

generate_optimization_tips(tier, m, fpl_pct) ==
    IF tier = "coverage_gap" THEN
        [tips |-> << TextAmount("INCREASE income by $ - reduces deductions or report more income", 15650 - m),
                     Text("Consider Roth IRA conversion to increase MAGI (careful with taxes)") >>,
         savings |-> 5000]
    ELSE IF tier = "subsidy_only" THEN
        [tips |-> << TextAmount("REDUCE MAGI by $ to qualify for CSR 73%", m - 39125),
                     Text("Maximize Schedule E deductions (repairs, maintenance)"),
                     Text("Prepay property taxes before year-end"),
                     Text("Increase retirement contributions (SEP-IRA, Solo 401k)") >>,
         savings |-> 2000]
    ELSE IF tier = "no_subsidy" THEN
        [tips |-> << TextAmount("REDUCE MAGI by $ to qualify for premium subsidies", m - 62600),
                     Text("Consider health savings account (HSA) contributions"),
                     Text("Review all business expenses for optimization") >>,
         savings |-> 6000]
    ELSE IF tier \in {"csr_94", "csr_87"} THEN
        [tips |-> << Text("You're in an optimal tier - maintain current income level"),
                     Text("Monitor mid-year to ensure you stay in range"),
                     Text("Consider SEP-IRA contributions if approaching tier limit") >>,
         savings |-> 0]
    ELSE
        [tips |-> << >>, savings |-> 0]

(***************************************************************************)
(* Engine: the InsuranceRecommendation that generate_recommendation builds *)
(* before it stores it (lines 353-372).                                    *)
(***************************************************************************)
InsuranceRecommendation(m, h, generated_at) ==
    LET fpl_pct == calculate_fpl_percentage(m, h)
        t == determine_eligibility_tier(fpl_pct)
        o == generate_optimization_tips(t.tier, m, fpl_pct)
    IN  [magi |-> m,
         household_size |-> h,
         fpl_percentage |-> round1(fpl_pct),
         eligibility_tier |-> t.tier,
         tier_description |-> t.description,
         recommended_plans |-> get_florida_plans(t.tier),
         action_items |-> generate_action_items(t.tier, m),
         warnings |-> generate_warnings(t.tier, m, fpl_pct),
         optimization_tips |-> o.tips,
         annual_savings_potential |-> o.savings,
         generated_at |-> generated_at]

(***************************************************************************)
(* State.                                                                  *)
(***************************************************************************)
VARIABLES
    magi,                 \* the caller's income argument (whole dollars)
    household_size,       \* the caller's household-size argument
    engine_supabase,      \* InsuranceRecommendationEngine.supabase: TRUE when a client is configured
    now,                  \* the clock read by datetime.now()
    calls,                \* what each generate_recommendation call gave its caller, in order
    tax_agent_decisions,  \* rows of the tax_agent_decisions table
    console,              \* lines printed by the engine ("Warning: Could not store ...")
    tax_years,            \* rows of the tax_years table, a row's id being its position
    rental_properties,    \* rows of the rental_properties table, a row's id being its position
    rental_income,        \* rows of the rental_income table, unique on (property_id, year, month)
    rental_expenses,      \* rows of the rental_expenses table, in insertion order
    asset_tracking,       \* rows of the asset_tracking table, in insertion order
    last_call,            \* the optimizer's last call: what it gave its caller and what it wrote
                          \* to the audit tables magi_calculations and tax_optimization_actions
                          \* (append-only tables that no method reads back)
    in_flight             \* per concurrent caller of get_or_create_tax_year: where its call
                          \* stands between the select and the insert, and what it returned

engine_vars == <<magi, household_size, engine_supabase, now, calls, tax_agent_decisions, console>>

optimizer_vars == <<tax_years, rental_properties, rental_income, rental_expenses, asset_tracking, last_call, in_flight>>

tables == <<tax_years, rental_properties, rental_income, rental_expenses, asset_tracking>>

vars == <<magi, household_size, engine_supabase, now, calls, tax_agent_decisions, console, tax_years, rental_properties, rental_income, rental_expenses, asset_tracking, last_call, in_flight>>

NoCall == [op |-> "(none)", outcome |-> "(none)"]

\* the callers that may use the optimizer at the same time
Callers == {"a", "b"}

\* a caller with no call in progress
NoTaxYear == [year |-> "(none)"]
IdleCaller ==
    [pc |-> "idle", new_year |-> NoTaxYear, existed |-> FALSE, rows_written |-> 0, result |-> NoTaxYear]

OptimizerIdle ==
    /\ tax_years = << >>
    /\ rental_properties = << >>
    /\ rental_income = {}
    /\ rental_expenses = << >>
    /\ asset_tracking = << >>
    /\ last_call = NoCall
    /\ in_flight = [c \in Callers |-> IdleCaller]

EngineIdle ==
    /\ magi = 0
    /\ household_size = 1
    /\ engine_supabase = FALSE
    /\ now = 0
    /\ calls = << >>
    /\ tax_agent_decisions = << >>
    /\ console = << >>

(***************************************************************************)
(* Engine: _store_recommendation.  insert_ok says whether the insert into  *)
(* tax_agent_decisions succeeds or raises.  The result names what the      *)
(* method leaves behind: the rows added, the lines printed, and whether an *)
(* exception leaves the method.                                            *)
(***************************************************************************)
DecisionRow(rec) ==
    [decision_type |-> "insurance_recommendation",
     input_data |-> [magi |-> rec.magi, household_size |-> rec.household_size],
     analysis |-> [fpl_percentage |-> rec.fpl_percentage, tier |-> rec.eligibility_tier],
     recommendation |-> rec.tier_description,
     model_used |-> "insurance_recommendation_engine_v1"]

\* the method without its try/except
store_recommendation_unguarded(rec, insert_ok) ==
    [rows |-> IF insert_ok THEN <<DecisionRow(rec)>> ELSE << >>,
     printed |-> << >>,
     raises |-> ~insert_ok]

store_recommendation(rec, insert_ok) ==
    [rows |-> IF insert_ok THEN <<DecisionRow(rec)>> ELSE << >>,
     printed |-> IF insert_ok THEN << >> ELSE << "Warning: Could not store recommendation" >>,
     raises |-> FALSE]

(***************************************************************************)
(* Engine: generate_recommendation, the whole call: build, store if a      *)
(* client is configured, return.                                           *)
(***************************************************************************)
NoRecommendation == [eligibility_tier |-> "(nothing returned)"]

generate_recommendation(m, h, at, client, insert_ok) ==
    LET recommendation == InsuranceRecommendation(m, h, at)
        stored == IF client THEN store_recommendation(recommendation, insert_ok)
                  ELSE [rows |-> << >>, printed |-> << >>, raises |-> FALSE]
    IN  [persistence |-> IF ~client THEN "no_client" ELSE IF insert_ok THEN "stored" ELSE "failed",
         outcome |-> IF stored.raises THEN "raised" ELSE "returned",
         rec |-> IF stored.raises THEN NoRecommendation ELSE recommendation,
         rows |-> stored.rows,
         printed |-> stored.printed]

(***************************************************************************)
(* Inputs of the engine.                                                   *)
(***************************************************************************)
BandEdges == {100, 150, 200, 250, 400}

\* the incomes of main()'s scenarios
ScenarioIncomes == {12000, 18000, 25000, 35000, 50000, 70000}

Incomes ==
    { i * IncomeStep : i \in -1..MaxIncomeSteps }
    \cup { (FPL_2026[h] * k) \div 100 + d : h \in DOMAIN FPL_2026, k \in BandEdges, d \in {-1, 0, 1} }
    \cup ScenarioIncomes

\* -1, 0 and 9 are not keys of FPL_2026
HouseholdSizes == -1..9

(***************************************************************************)
(* Engine: initial state and actions.                                      *)
(***************************************************************************)
EngineInitial ==
    /\ magi \in Incomes
    /\ household_size \in HouseholdSizes
    /\ engine_supabase \in BOOLEAN
    /\ now = 0
    /\ calls = << >>
    /\ tax_agent_decisions = << >>
    /\ console = << >>
    /\ OptimizerIdle

\* InsuranceRecommendationEngine.__init__: a client iff SUPABASE_KEY is set
EngineConstruct ==
    \E key_set \in BOOLEAN :
        /\ engine_supabase' = key_set
        /\ UNCHANGED <<magi, household_size, now, calls, tax_agent_decisions, console>>
        /\ UNCHANGED optimizer_vars

GenerateRecommendation ==
    /\ Len(calls) < MaxCalls
    /\ \E insert_ok \in BOOLEAN :
          LET r == generate_recommendation(magi, household_size, now, engine_supabase, insert_ok)
          IN  /\ calls' = Append(calls, [persistence |-> r.persistence, outcome |-> r.outcome, rec |-> r.rec])
              /\ tax_agent_decisions' = tax_agent_decisions \o r.rows
              /\ console' = console \o r.printed
    /\ now' = now + 1
    /\ UNCHANGED <<magi, household_size, engine_supabase>>
    /\ UNCHANGED optimizer_vars

EngineNext == EngineConstruct \/ GenerateRecommendation

EngineSpec == EngineInitial /\ [][EngineNext]_vars

(***************************************************************************)
(* Optimizer: reference data.                                              *)
(***************************************************************************)
\* THRESHOLDS_2025.get(target_program, {}).get(filing_status, 20121), for
\* the filing statuses "single" and "married" and any other text
ProgramThreshold(target_program, filing_status) ==
    IF target_program = "medicaid" /\ filing_status = "single" THEN 20121
    ELSE IF target_program = "medicaid" /\ filing_status = "married" THEN 27214
    ELSE IF target_program = "aca_silver_csr" /\ filing_status = "single" THEN 36450
    ELSE IF target_program = "aca_silver_csr" /\ filing_status = "married" THEN 49350
    ELSE IF target_program = "aca_bronze" /\ filing_status = "single" THEN 58320
    ELSE IF target_program = "aca_bronze" /\ filing_status = "married" THEN 79120
    ELSE 20121

\* the keys of SCHEDULE_E_CATEGORIES, each with its Schedule E line
SCHEDULE_E_CATEGORIES ==
    [advertising |-> 5, auto_travel |-> 6, cleaning_maintenance |-> 7, commissions |-> 8,
     insurance |-> 9, legal_professional |-> 10, management_fees |-> 11,
     mortgage_interest |-> 12, other_interest |-> 13, repairs |-> 14, supplies |-> 15,
     property_taxes |-> 16, utilities |-> 17, depreciation |-> 18, other |-> 19]

\* OPTIMAL_MAGI_TARGET
OPTIMAL_MAGI_TARGET == [minimum |-> 15650, optimal_low |-> 15650, optimal_high |-> 20121]

\* TaxInsuranceOptimizer.current_year, datetime.now().year at construction
current_year == 2026

(***************************************************************************)
(* Optimizer: sums over rows.                                              *)
(***************************************************************************)
RECURSIVE SumField(_, _)
\* sum of field f over a set of rows
SumField(rows, f) ==
    IF rows = {} THEN 0
    ELSE LET r == CHOOSE x \in rows : TRUE
         IN  r[f] + SumField(rows \ {r}, f)

RECURSIVE SumAt(_, _, _)
\* sum of field f over the rows of table tbl with ids in ids
SumAt(tbl, ids, f) ==
    IF ids = {} THEN 0
    ELSE LET k == CHOOSE x \in ids : TRUE
         IN  tbl[k][f] + SumAt(tbl, ids \ {k}, f)

(***************************************************************************)
(* Optimizer: data entry.  Each operator gives what the method returns or  *)
(* raises and the table as the method leaves it.  The data-entry tables    *)
(* are taken to answer; the inserts that may fail are the ones into the    *)
(* audit tables (calculate_magi, get_optimization_recommendations).        *)
(***************************************************************************)
RowCount ==
    Len(tax_years) + Len(rental_properties) + Cardinality(rental_income)
    + Len(rental_expenses) + Len(asset_tracking)

get_or_create_tax_year(year, filer_name, filing_status, target_program) ==
    LET found == { i \in DOMAIN tax_years : tax_years[i].year = year }
        new_year == [year |-> year, filing_status |-> filing_status, filer_name |-> filer_name,
                     target_program |-> target_program,
                     income_goal |-> ProgramThreshold(target_program, filing_status)]
    IN  IF found # {}
        THEN [outcome |-> "returned",
              result |-> tax_years[CHOOSE i \in found : \A j \in found : i <= j],
              tax_years |-> tax_years]
        ELSE [outcome |-> "returned", result |-> new_year, tax_years |-> Append(tax_years, new_year)]

\* purchase_price * 0.80 and building_value / 27.5: exact for the prices the
\* model enters (multiples of 34,375), whose building value and depreciation
\* are whole dollars
add_rental_property(tax_year_id, purchase_price) ==
    LET building_value == (purchase_price * 80) \div 100
        annual_depreciation == (building_value * 10) \div 275
        property_data == [tax_year_id |-> tax_year_id, purchase_price |-> purchase_price,
                          depreciation_basis |-> building_value,
                          annual_depreciation |-> annual_depreciation]
    IN  [outcome |-> "returned", result |-> property_data,
         rental_properties |-> Append(rental_properties, property_data)]

\* a slip that inserts where the method upserts
record_rental_income_insert(property_id, year, month, gross_rent, vacancy_days, other_income) ==
    LET daily_rate == gross_rent \div 30
        vacancy_loss == daily_rate * vacancy_days
        income_data == [property_id |-> property_id, year |-> year, month |-> month,
                        gross_rent |-> gross_rent, vacancy_days |-> vacancy_days,
                        vacancy_loss |-> vacancy_loss, other_income |-> other_income]
    IN  [outcome |-> "returned", result |-> income_data,
         rental_income |-> rental_income \cup {income_data}]

\* gross_rent / 30 * vacancy_days: exact for the rents the model enters
\* (multiples of 30)
record_rental_income(property_id, year, month, gross_rent, vacancy_days, other_income) ==
    LET daily_rate == gross_rent \div 30
        vacancy_loss == daily_rate * vacancy_days
        income_data == [property_id |-> property_id, year |-> year, month |-> month,
                        gross_rent |-> gross_rent, vacancy_days |-> vacancy_days,
                        vacancy_loss |-> vacancy_loss, other_income |-> other_income]
        same_key(r) == r.property_id = property_id /\ r.year = year /\ r.month = month
    IN  [outcome |-> "returned", result |-> income_data,
         rental_income |-> { r \in rental_income : ~same_key(r) } \cup {income_data}]

\* the method without its category check
record_expense_unchecked(property_id, year, category, amount) ==
    LET expense_data == [property_id |-> property_id, year |-> year, category |-> category,
                         amount |-> amount]
    IN  [outcome |-> "returned", result |-> expense_data,
         rental_expenses |-> Append(rental_expenses, expense_data)]

record_expense(property_id, year, category, amount) ==
    IF category \notin DOMAIN SCHEDULE_E_CATEGORIES
    THEN [outcome |-> "ValueError", result |-> "Invalid category", rental_expenses |-> rental_expenses]
    ELSE LET expense_data == [property_id |-> property_id, year |-> year, category |-> category,
                              amount |-> amount,
                              schedule_e_line |-> SCHEDULE_E_CATEGORIES[category]]
         IN  [outcome |-> "returned", result |-> expense_data,
              rental_expenses |-> Append(rental_expenses, expense_data)]

add_asset(tax_year_id, asset_type, value, is_countable, exempt_reason) ==
    LET asset_data == [tax_year_id |-> tax_year_id, asset_type |-> asset_type,
                       current_value |-> value, is_countable |-> is_countable,
                       exempt_reason |-> exempt_reason]
    IN  [outcome |-> "returned", result |-> asset_data,
         asset_tracking |-> Append(asset_tracking, asset_data)]

(***************************************************************************)
(* Optimizer: check_asset_eligibility.                                     *)
(***************************************************************************)
\* Python's None, the default of add_asset's exempt_reason
None == "None"

\* THRESHOLDS_2025["medicaid"]["asset_limit_single" / "asset_limit_married"]
MedicaidAssetLimit(filing_status) ==
    IF filing_status = "single" THEN 2000 ELSE 3000

\* a slip that reads a row without the flag as exempt
is_countable_of_default_exempt(a) ==
    IF "is_countable" \in DOMAIN a THEN a.is_countable ELSE FALSE

\* a.get("is_countable", True)
is_countable_of(a) ==
    IF "is_countable" \in DOMAIN a THEN a.is_countable ELSE TRUE

\* the AssetSummary the method returns; the tax year's target program is
\* not read, the limit is Medicaid's for the filing status
check_asset_eligibility(tax_year_id) ==
    LET filing_status == tax_years[tax_year_id].filing_status
        asset_limit == MedicaidAssetLimit(filing_status)
        of_tax_year(a) == a.tax_year_id = tax_year_id
        is_countable(a) == is_countable_of(a)
        is_exempt(a) == ~is_countable_of(a)
        assets == SelectSeq(asset_tracking, of_tax_year)
        countable == SelectSeq(assets, is_countable)
        exempt == SelectSeq(assets, is_exempt)
        total_countable == SumAt(countable, DOMAIN countable, "current_value")
        total_exempt == SumAt(exempt, DOMAIN exempt, "current_value")
    IN  [outcome |-> "returned",
         result |-> [total_countable |-> total_countable,
                     total_exempt |-> total_exempt,
                     asset_limit |-> asset_limit,
                     under_limit |-> total_countable <= asset_limit,
                     countable_assets |-> countable,
                     exempt_assets |-> exempt]]

(***************************************************************************)
(* Optimizer: calculate_magi.  audit_ok says whether the insert into       *)
(* magi_calculations succeeds or raises.                                   *)
(***************************************************************************)
NoCalculation == [magi |-> "(nothing returned)"]

\* a slip that raises a negative net amount to 0
MAGICalculation_clamped(year, gross_income, vacancy_loss, other_income, total_expenses, target_program, filing_status) ==
    LET difference == gross_income - vacancy_loss + other_income - total_expenses
        net_rental == IF difference < 0 THEN 0 ELSE difference
        threshold == ProgramThreshold(target_program, filing_status)
    IN  [year |-> year,
         gross_rental_income |-> gross_income,
         total_expenses |-> total_expenses,
         net_rental_income |-> net_rental,
         other_income |-> other_income,
         adjustments |-> 0,
         agi |-> net_rental,
         magi |-> net_rental,
         target_program |-> target_program,
         threshold |-> threshold,
         headroom |-> threshold - net_rental,
         on_track |-> net_rental <= threshold]

MAGICalculation(year, gross_income, vacancy_loss, other_income, total_expenses, target_program, filing_status) ==
    LET net_rental == gross_income - vacancy_loss + other_income - total_expenses
        agi == net_rental
        threshold == ProgramThreshold(target_program, filing_status)
    IN  [year |-> year,
         gross_rental_income |-> gross_income,
         total_expenses |-> total_expenses,
         net_rental_income |-> net_rental,
         other_income |-> other_income,
         adjustments |-> 0,
         agi |-> agi,
         magi |-> agi,
         target_program |-> target_program,
         threshold |-> threshold,
         headroom |-> threshold - agi,
         on_track |-> agi <= threshold]

\* the ids of the tax year's properties (lines 320-321)
property_ids_of(properties, tax_year_id) ==
    { i \in DOMAIN properties : properties[i].tax_year_id = tax_year_id }

\* the income rows of the tax year's properties for the year (line 324)
income_rows_of(properties, income, tax_year_id, year) ==
    { r \in income : r.property_id \in property_ids_of(properties, tax_year_id) /\ r.year = year }

\* a slip that leaves the properties' depreciation out of the expenses
total_expenses_without_depreciation(properties, expenses, tax_year_id, year) ==
    LET expense_ids == { i \in DOMAIN expenses :
                           /\ expenses[i].property_id \in property_ids_of(properties, tax_year_id)
                           /\ expenses[i].year = year }
    IN  SumAt(expenses, expense_ids, "amount")

\* the expense rows' amounts plus the properties' depreciation (lines 331-338)
total_expenses_of(properties, expenses, tax_year_id, year) ==
    LET expense_ids == { i \in DOMAIN expenses :
                           /\ expenses[i].property_id \in property_ids_of(properties, tax_year_id)
                           /\ expenses[i].year = year }
        depreciation == SumAt(properties, property_ids_of(properties, tax_year_id), "annual_depreciation")
    IN  SumAt(expenses, expense_ids, "amount") + depreciation

\* the MAGICalculation built from the tables (lines 317-369)
magi_calculation(years, properties, income, expenses, tax_year_id, year) ==
    LET tax_year == years[tax_year_id]
        income_rows == income_rows_of(properties, income, tax_year_id, year)
        gross_income == SumField(income_rows, "gross_rent")
        vacancy_loss == SumField(income_rows, "vacancy_loss")
        other_income == SumField(income_rows, "other_income")
        total_expenses == total_expenses_of(properties, expenses, tax_year_id, year)
    IN  MAGICalculation(year, gross_income, vacancy_loss, other_income, total_expenses,
                        tax_year.target_program, tax_year.filing_status)

calculate_magi(tax_year_id, year, audit_ok) ==
    LET calculation == magi_calculation(tax_years, rental_properties, rental_income, rental_expenses,
                                        tax_year_id, year)
        calc_data == [tax_year_id |-> tax_year_id,
                      rental_gross_income |-> calculation.gross_rental_income,
                      rental_expenses_total |-> calculation.total_expenses,
                      rental_net_income |-> calculation.net_rental_income,
                      other_income |-> calculation.other_income,
                      agi |-> calculation.agi, magi |-> calculation.magi,
                      target_program |-> calculation.target_program,
                      program_threshold |-> calculation.threshold,
                      on_track |-> calculation.on_track, headroom |-> calculation.headroom]
    IN  \* the insert is the method's last statement before its return: when it
        \* raises, the exception leaves calculate_magi and nothing is returned
        [outcome |-> IF audit_ok THEN "returned" ELSE "raised",
         result |-> IF audit_ok THEN calculation ELSE NoCalculation,
         magi_calculations |-> IF audit_ok THEN <<calc_data>> ELSE << >>]

(***************************************************************************)
(* Optimizer: get_optimization_recommendations.  failing_insert is the     *)
(* position of the tax_optimization_actions insert that raises, 0 when     *)
(* none does.                                                              *)
(***************************************************************************)
Recommendation(priority, action_type, potential_savings, impact_on_magi) ==
    [priority |-> priority, action_type |-> action_type,
     potential_savings |-> potential_savings, impact_on_magi |-> impact_on_magi]

\* the entry for the MAGI's range (lines 486-583)
status_recommendation(m) ==
    LET min_for_aca == OPTIMAL_MAGI_TARGET.minimum
        optimal_high == OPTIMAL_MAGI_TARGET.optimal_high
    IN  IF m < min_for_aca THEN
            Recommendation(1, "COVERAGE_GAP_WARNING", min_for_aca - m, min_for_aca - m)
        ELSE IF m >= min_for_aca /\ m <= optimal_high THEN
            Recommendation(10, "OPTIMAL_RANGE", 0, 0)
        ELSE IF m > optimal_high /\ m <= 23475 THEN
            Recommendation(5, "GOOD_BUT_WATCH", m - optimal_high, m - optimal_high)
        ELSE IF m > 23475 /\ m <= 31300 THEN
            Recommendation(3, "CSR_87_RANGE", m - optimal_high, m - optimal_high)
        ELSE IF m > 31300 /\ m <= 62600 THEN
            Recommendation(2, "NO_CSR", m - optimal_high, m - optimal_high)
        ELSE
            Recommendation(1, "NO_SUBSIDIES", m - optimal_high, m - optimal_high)

\* the deadline reminder appended to every list (lines 586-598)
DeadlineReminder == Recommendation(8, "DEADLINE_REMINDER", 0, 0)

NoRecommendations == << [action_type |-> "(nothing returned)"] >>

get_optimization_recommendations(tax_year_id, audit_ok, failing_insert) ==
    LET magi_calc == calculate_magi(tax_year_id, current_year, audit_ok)
        recommendations == << status_recommendation(magi_calc.result.magi), DeadlineReminder >>
        rec_data(k) == [tax_year_id |-> tax_year_id,
                        action_type |-> recommendations[k].action_type,
                        priority |-> recommendations[k].priority,
                        potential_savings |-> recommendations[k].potential_savings,
                        impact_on_magi |-> recommendations[k].impact_on_magi]
        written == IF failing_insert = 0 THEN Len(recommendations) ELSE failing_insert - 1
    IN  IF magi_calc.outcome = "raised"
        THEN [outcome |-> "raised", result |-> NoRecommendations,
              magi_calculations |-> magi_calc.magi_calculations,
              tax_optimization_actions |-> << >>]
        ELSE [outcome |-> IF failing_insert = 0 THEN "returned" ELSE "raised",
              result |-> IF failing_insert = 0 THEN recommendations ELSE NoRecommendations,
              magi_calculations |-> magi_calc.magi_calculations,
              tax_optimization_actions |-> [k \in 1..written |-> rec_data(k)]]

(***************************************************************************)
(* Optimizer: inputs, initial state and actions.                           *)
(***************************************************************************)
Years == {current_year - 1, current_year}
Months == {1, 2}
\* (filing_status, target_program); "aca_silver_csr_94" is a key of
\* THRESHOLDS_2026, not of THRESHOLDS_2025
TaxYearInputs == { <<"single", "medicaid">>, <<"married", "aca_silver_csr_94">> }
\* 171,875 depreciates by 5,000 a year
PurchasePrices == {171875}
\* (gross_rent, vacancy_days, other_income)
IncomeInputs == { <<18000, 0, 4500>>, <<45000, 3, 0>> }
\* (category, amount); "entertainment" is not a Schedule E category
ExpenseInputs == { <<"repairs", 10000>>, <<"repairs", -500>>, <<"entertainment", 10000>> }

Init == EngineIdle /\ OptimizerIdle

\* a data-entry call, as the claims see it
Called(op, r) == [op |-> op, outcome |-> r.outcome]

GetOrCreateTaxYear ==
    \E year \in Years, t \in TaxYearInputs :
        LET r == get_or_create_tax_year(year, "Ariel Shapira", t[1], t[2])
        IN  /\ Len(r.tax_years) - Len(tax_years) + RowCount <= MaxRows
            /\ tax_years' = r.tax_years
            /\ last_call' = Called("get_or_create_tax_year", r)
            /\ UNCHANGED <<rental_properties, rental_income, rental_expenses, asset_tracking>>
            /\ UNCHANGED engine_vars
            /\ UNCHANGED in_flight

AddRentalProperty ==
    \E tax_year_id \in DOMAIN tax_years, purchase_price \in PurchasePrices :
        LET r == add_rental_property(tax_year_id, purchase_price)
        IN  /\ RowCount < MaxRows
            /\ rental_properties' = r.rental_properties
            /\ last_call' = Called("add_rental_property", r)
            /\ UNCHANGED <<tax_years, rental_income, rental_expenses, asset_tracking>>
            /\ UNCHANGED engine_vars
            /\ UNCHANGED in_flight

RecordRentalIncome ==
    \E property_id \in DOMAIN rental_properties, year \in Years, month \in Months, i \in IncomeInputs :
        LET r == record_rental_income(property_id, year, month, i[1], i[2], i[3])
        IN  /\ Cardinality(r.rental_income) - Cardinality(rental_income) + RowCount <= MaxRows
            /\ rental_income' = r.rental_income
            /\ last_call' = [op |-> "record_rental_income", outcome |-> r.outcome,
                             result |-> r.result,
                             replaced |-> rental_income \ r.rental_income]
            /\ UNCHANGED <<tax_years, rental_properties, rental_expenses, asset_tracking>>
            /\ UNCHANGED engine_vars
            /\ UNCHANGED in_flight

RecordExpense ==
    \E property_id \in DOMAIN rental_properties, year \in Years, e \in ExpenseInputs :
        LET r == record_expense(property_id, year, e[1], e[2])
        IN  /\ Len(r.rental_expenses) - Len(rental_expenses) + RowCount <= MaxRows
            /\ rental_expenses' = r.rental_expenses
            /\ last_call' = [op |-> "record_expense", outcome |-> r.outcome,
                             category |-> e[1],
                             rows_written |-> Len(r.rental_expenses) - Len(rental_expenses)]
            /\ UNCHANGED <<tax_years, rental_properties, rental_income, asset_tracking>>
            /\ UNCHANGED engine_vars
            /\ UNCHANGED in_flight

CalculateMagi ==
    \E tax_year_id \in DOMAIN tax_years, year \in Years, audit_ok \in BOOLEAN :
        LET r == calculate_magi(tax_year_id, year, audit_ok)
        IN  /\ last_call' = [op |-> "calculate_magi", outcome |-> r.outcome, result |-> r.result,
                             tax_year_id |-> tax_year_id, year |-> year,
                             failed_insert |-> IF audit_ok THEN "none" ELSE "magi_calculations",
                             magi_calculations |-> r.magi_calculations]
            /\ UNCHANGED tables
            /\ UNCHANGED engine_vars
            /\ UNCHANGED in_flight

GetOptimizationRecommendations ==
    \E tax_year_id \in DOMAIN tax_years, audit_ok \in BOOLEAN, failing_insert \in 0..2 :
        LET r == get_optimization_recommendations(tax_year_id, audit_ok, failing_insert)
        IN  /\ audit_ok \/ failing_insert = 0
            /\ last_call' = [op |-> "get_optimization_recommendations", outcome |-> r.outcome,
                             result |-> r.result, tax_year_id |-> tax_year_id,
                             failed_insert |-> IF ~audit_ok THEN "magi_calculations"
                                               ELSE IF failing_insert = 0 THEN "none"
                                               ELSE "tax_optimization_actions",
                             magi_calculations |-> r.magi_calculations,
                             tax_optimization_actions |-> r.tax_optimization_actions]
            /\ UNCHANGED tables
            /\ UNCHANGED engine_vars
            /\ UNCHANGED in_flight

Next ==
    \/ GetOrCreateTaxYear
    \/ AddRentalProperty
    \/ RecordRentalIncome
    \/ RecordExpense
    \/ CalculateMagi
    \/ GetOptimizationRecommendations

Spec == Init /\ [][Next]_vars

(***************************************************************************)
(* Optimizer: asset tracking.  The tables may already hold what an         *)
(* earlier session left: a tax year for an ACA program, with an asset row  *)
(* that has no countability flag.                                          *)
(***************************************************************************)
ExistingTaxYear ==
    [year |-> current_year - 1, filing_status |-> "single", filer_name |-> "Ariel Shapira",
     target_program |-> "aca_bronze", income_goal |-> ProgramThreshold("aca_bronze", "single")]

UnflaggedAsset == [tax_year_id |-> 1, asset_type |-> "bank_account", current_value |-> 700]

\* (asset_type, value, is_countable, exempt_reason); the countable values
\* add up to Medicaid's limits and past them
AssetInputs ==
    { <<"bank_account", 1200, TRUE, None>>,
      <<"bank_account", 800, TRUE, None>>,
      <<"vehicle", 1900, FALSE, "primary vehicle">>,
      <<"vehicle", 1900, FALSE, None>> }

AssetInitial ==
    /\ EngineIdle
    /\ rental_properties = << >>
    /\ rental_income = {}
    /\ rental_expenses = << >>
    /\ last_call = NoCall
    /\ in_flight = [c \in Callers |-> IdleCaller]
    /\ \/ tax_years = << >> /\ asset_tracking = << >>
       \/ tax_years = <<ExistingTaxYear>> /\ asset_tracking = <<UnflaggedAsset>>

AddAsset ==
    \E tax_year_id \in DOMAIN tax_years, a \in AssetInputs :
        LET r == add_asset(tax_year_id, a[1], a[2], a[3], a[4])
        IN  /\ RowCount < MaxRows
            /\ asset_tracking' = r.asset_tracking
            /\ last_call' = Called("add_asset", r)
            /\ UNCHANGED <<tax_years, rental_properties, rental_income, rental_expenses>>
            /\ UNCHANGED engine_vars
            /\ UNCHANGED in_flight

CheckAssetEligibility ==
    \E tax_year_id \in DOMAIN tax_years :
        LET r == check_asset_eligibility(tax_year_id)
        IN  /\ last_call' = [op |-> "check_asset_eligibility", outcome |-> r.outcome,
                             result |-> r.result, tax_year_id |-> tax_year_id]
            /\ UNCHANGED tables
            /\ UNCHANGED engine_vars
            /\ UNCHANGED in_flight

AssetNext ==
    \/ GetOrCreateTaxYear
    \/ AddAsset
    \/ CheckAssetEligibility

AssetSpec == AssetInitial /\ [][AssetNext]_vars

(***************************************************************************)
(* Optimizer: get_or_create_tax_year called by several callers at once.    *)
(* The method makes two requests to the store, the select of line 214 and  *)
(* the insert of line 230, and holds no lock between them; each request is *)
(* one step, and the steps of different callers interleave.                *)
(***************************************************************************)
\* lines 214-228: the select; an existing record is returned at once,
\* otherwise the caller builds the row it is about to insert
SelectTaxYear(c) ==
    /\ in_flight[c].pc = "idle"
    /\ \E year \in Years, t \in TaxYearInputs :
          LET of_year(row) == row.year = year
              data == SelectSeq(tax_years, of_year)
              new_year == [year |-> year, filing_status |-> t[1], filer_name |-> "Ariel Shapira",
                           target_program |-> t[2],
                           income_goal |-> ProgramThreshold(t[2], t[1])]
              inserting == { d \in Callers : in_flight[d].pc = "insert" }
          IN  IF data # << >>
              THEN in_flight' = [in_flight EXCEPT ![c] =
                                    [pc |-> "idle", new_year |-> NoTaxYear, existed |-> TRUE,
                                     rows_written |-> 0, result |-> data[1]]]
              ELSE /\ RowCount + Cardinality(inserting) < MaxRows
                   /\ in_flight' = [in_flight EXCEPT ![c] =
                                       [pc |-> "insert", new_year |-> new_year, existed |-> FALSE,
                                        rows_written |-> 0, result |-> NoTaxYear]]
    /\ UNCHANGED <<tables, last_call>>
    /\ UNCHANGED engine_vars

\* lines 230-231: the insert, and the return of the inserted row
InsertTaxYear(c) ==
    /\ in_flight[c].pc = "insert"
    /\ tax_years' = Append(tax_years, in_flight[c].new_year)
    /\ in_flight' = [in_flight EXCEPT ![c] =
                        [pc |-> "idle", new_year |-> NoTaxYear, existed |-> FALSE,
                         rows_written |-> 1, result |-> in_flight[c].new_year]]
    /\ UNCHANGED <<rental_properties, rental_income, rental_expenses, asset_tracking, last_call>>
    /\ UNCHANGED engine_vars

TaxYearNext == \E c \in Callers : SelectTaxYear(c) \/ InsertTaxYear(c)

TaxYearSpec == Init /\ [][TaxYearNext]_vars

(***************************************************************************)
(* Claims about the engine, checked under EngineSpec.                      *)
(***************************************************************************)
Returned == { i \in DOMAIN calls : calls[i].outcome = "returned" }

\* the exact poverty-level percentage of the caller's arguments
ExactPct == LET fpl == IF household_size \in 1..8 THEN FPL_2026[household_size] ELSE 15650
            IN  Pct(100 * magi, fpl)

\* C1: the tier of every returned recommendation is the band of the
\* poverty-level percentage p, upper bounds inclusive: coverage_gap iff
\* p < 100, csr_94 iff 100 <= p <= 150, csr_87 iff 150 < p <= 200, csr_73 iff
\* 200 < p <= 250, subsidy_only iff 250 < p <= 400, no_subsidy iff p > 400.
C1_TierByInclusiveUpperBound ==
    \A i \in Returned :
        LET t == calls[i].rec.eligibility_tier
            p == ExactPct
        IN  /\ (t = "coverage_gap") <=> PctLt(p, 100)
            /\ (t = "csr_94") <=> (PctGe(p, 100) /\ PctLe(p, 150))
            /\ (t = "csr_87") <=> (PctGt(p, 150) /\ PctLe(p, 200))
            /\ (t = "csr_73") <=> (PctGt(p, 200) /\ PctLe(p, 250))
            /\ (t = "subsidy_only") <=> (PctGt(p, 250) /\ PctLe(p, 400))
            /\ (t = "no_subsidy") <=> PctGt(p, 400)

\* a percentage exactly at 150 was classified, into csr_94
C1_Witness ==
    \E i \in Returned :
        /\ ExactPct.num = 150 * ExactPct.den
        /\ calls[i].rec.eligibility_tier = "csr_94"

\* C2: for household size 1 the scenario incomes give: 12,000 coverage_gap
\* with a reported shortfall of 3,650; 18,000 csr_94; 25,000 csr_87;
\* 35,000 csr_73; 50,000 subsidy_only; 70,000 no_subsidy.
C2_Scenarios ==
    \A i \in Returned :
        household_size = 1 =>
            LET r == calls[i].rec
            IN  /\ magi = 12000 => /\ r.eligibility_tier = "coverage_gap"
                                   /\ r.action_items[1].has_amount
                                   /\ r.action_items[1].cents = 3650 * 100
                /\ magi = 18000 => r.eligibility_tier = "csr_94"
                /\ magi = 25000 => r.eligibility_tier = "csr_87"
                /\ magi = 35000 => r.eligibility_tier = "csr_73"
                /\ magi = 50000 => r.eligibility_tier = "subsidy_only"
                /\ magi = 70000 => r.eligibility_tier = "no_subsidy"

C2_Witness ==
    /\ household_size = 1
    /\ magi = 12000
    /\ \E i \in Returned : calls[i].rec.action_items[1].cents = 365000

\* what a recommendation says, without the time it was generated at
Content(r) == [f \in DOMAIN r \ {"generated_at"} |-> r[f]]

\* C3: every call returns a recommendation (a failed insert never reaches
\* the caller), and the calls made with the same arguments return the same
\* tier, description, plans, action items, warnings, tips and savings,
\* whether the insert succeeded, failed or no client was configured.
C3_PersistenceDoesNotChangeResult ==
    /\ \A i \in DOMAIN calls : calls[i].outcome = "returned"
    /\ \A i, j \in DOMAIN calls : Content(calls[i].rec) = Content(calls[j].rec)

\* one call whose insert failed and one whose insert succeeded
C3_Witness ==
    \E i, j \in DOMAIN calls :
        /\ calls[i].persistence = "failed"
        /\ calls[j].persistence = "stored"
        /\ calls[i].rec.eligibility_tier \in Tiers

\* the income at which the caller's household reaches 100% of its poverty level
MinimumQualifyingIncome == ExactPct.den

\* C6: whenever the tier is coverage_gap, the shortfall reported in the
\* first action item and in the first tip is the minimum qualifying
\* threshold minus the income, and is strictly positive.  (The threshold is
\* read either as the household's own 100% level or as the single-person
\* 15,650: the statement asks for one of the two.)
C6_ShortfallPositive ==
    \A i \in Returned :
        calls[i].rec.eligibility_tier = "coverage_gap" =>
            LET a == calls[i].rec.action_items[1]
                t == calls[i].rec.optimization_tips[1]
            IN  /\ a.has_amount /\ t.has_amount
                /\ \/ a.cents = (MinimumQualifyingIncome - magi) * 100
                   \/ a.cents = (15650 - magi) * 100
                /\ t.cents = a.cents
                /\ a.cents > 0

IsDental(plan) == plan.plan_type = "Dental"

DentalLast(plans) ==
    /\ Len(plans) >= 1
    /\ IsDental(plans[Len(plans)])
    /\ Cardinality({ k \in DOMAIN plans : IsDental(plans[k]) }) = 1
    /\ \A k \in 1..(Len(plans) - 1) : ~IsDental(plans[k]) /\ ~plans[k].includes_dental

\* C7: the plan list of every tier, and of every returned recommendation,
\* is non-empty, ends with the dental plan, holds exactly one dental plan,
\* and has every tier-specific plan before it.
C7_DentalPlanLast ==
    /\ \A t \in Tiers : DentalLast(get_florida_plans(t))
    /\ \A i \in Returned : DentalLast(calls[i].rec.recommended_plans)

\* a coverage_gap recommendation: the alternative plan, then the dental plan
C7_Witness ==
    \E i \in Returned :
        /\ calls[i].rec.eligibility_tier = "coverage_gap"
        /\ Len(calls[i].rec.recommended_plans) = 2
        /\ IsDental(calls[i].rec.recommended_plans[2])

\* C11: a call with a household size that is not a key of the poverty-level
\* table (-1, 0, 9) returns; its percentage is the income against the
\* single-person figure 15,650, and percentage and tier are those household
\* size 1 gets for the same income.
C11_UnknownHouseholdSizeFallsBack ==
    household_size \notin DOMAIN FPL_2026 =>
        /\ \A i \in DOMAIN calls : calls[i].outcome = "returned"
        /\ \A i \in Returned :
              LET single == InsuranceRecommendation(magi, 1, calls[i].rec.generated_at)
              IN  /\ calls[i].rec.fpl_percentage = round1(Pct(100 * magi, 15650))
                  /\ calls[i].rec.fpl_percentage = single.fpl_percentage
                  /\ calls[i].rec.eligibility_tier = single.eligibility_tier

\* 18,000 for a household of 9: 115.0% of 15,650
C11_Witness ==
    /\ household_size = 9
    /\ magi = 18000
    /\ \E i \in Returned : calls[i].rec.fpl_percentage = 1150 /\ calls[i].rec.eligibility_tier = "csr_94"

\* C12: when the household-size lookup falls back, the fallback is
\* observable: the engine printed a line about it, or the returned
\* recommendation carries a field, or a value other than the echoed
\* household size, that the recommendation for household size 1 does not.
C12_FallbackObservable ==
    household_size \notin DOMAIN FPL_2026 =>
        \A i \in Returned :
            LET single == InsuranceRecommendation(magi, 1, calls[i].rec.generated_at)
                rec == calls[i].rec
            IN  \/ \E k \in DOMAIN console : console[k] # "Warning: Could not store recommendation"
                \/ DOMAIN rec # DOMAIN single
                \/ \E f \in DOMAIN rec \ {"household_size"} : rec[f] # single[f]

\* the texts of the two proximity warnings generate_warnings knows
ProximityWarnings ==
    { "Close to CSR tier boundary - monitor income carefully",
      "Close to subsidy cliff at 400% FPL - reducing MAGI could save thousands" }

\* C16: a returned recommendation carries a boundary-proximity warning
\* exactly when its poverty-level percentage is within 5 points, on either
\* side, of one of the transitions 100, 150, 200, 250, 400.
C16_ProximityWarningWindow ==
    \A i \in Returned :
        LET w == calls[i].rec.warnings
            p == ExactPct
        IN  (\E k \in DOMAIN w : w[k].text \in ProximityWarnings)
            <=> (\E e \in BandEdges : PctGe(p, e - 5) /\ PctLe(p, e + 5))

\* the savings the claim gives each tier
SavingsOfTier ==
    [coverage_gap |-> 5000, subsidy_only |-> 2000, no_subsidy |-> 6000,
     csr_94 |-> 0, csr_87 |-> 0, csr_73 |-> 0]

\* C17: the annual savings of every returned recommendation is the constant
\* of its tier (coverage_gap 5000, subsidy_only 2000, no_subsidy 6000, the
\* CSR tiers 0), whatever the income and the household size.
C17_SavingsByTierOnly ==
    \A i \in Returned :
        calls[i].rec.annual_savings_potential = SavingsOfTier[calls[i].rec.eligibility_tier]

\* 50,000 for one person: subsidy_only, 10,875 above the CSR range, savings 2,000
C17_Witness ==
    /\ magi = 50000
    /\ household_size = 1
    /\ \E i \in Returned : /\ calls[i].rec.eligibility_tier = "subsidy_only"
                           /\ calls[i].rec.annual_savings_potential = 2000

\* the order of the bands
TierOrder == <<"coverage_gap", "csr_94", "csr_87", "csr_73", "subsidy_only", "no_subsidy">>
TierOf(m, h) == determine_eligibility_tier(calculate_fpl_percentage(m, h)).tier

\* the incomes a household's classification is compared at: 0, the scenario
\* incomes, and the whole dollars at and next to each band edge
ComparedIncomes(h) ==
    {0} \cup ScenarioIncomes
    \cup { (FPL_2026[h] * k) \div 100 + d : k \in BandEdges, d \in {-1, 0, 1} }

\* C19: for a household size of the table and non-negative incomes, every
\* income falls into exactly one band of the order, and the band of a
\* returned recommendation is no earlier than the band of any lower income
\* and no later than the band of any higher income.
C19_BandsContiguousMonotonic ==
    (household_size \in DOMAIN FPL_2026 /\ magi >= 0) =>
        LET returned_ranks == { k \in DOMAIN TierOrder :
                                  \E i \in Returned : calls[i].rec.eligibility_tier = TierOrder[k] }
        IN  /\ Returned # {} => Cardinality(returned_ranks) = 1
            /\ \A m \in ComparedIncomes(household_size) :
                  LET bands == { k \in DOMAIN TierOrder : TierOrder[k] = TierOf(m, household_size) }
                  IN  /\ Cardinality(bands) = 1
                      /\ m <= magi => \A k \in bands, r \in returned_ranks : k <= r
                      /\ m >= magi => \A k \in bands, r \in returned_ranks : k >= r

\* 35,000 for two people: csr_87, with lower incomes in earlier bands and
\* higher incomes in later ones
C19_Witness ==
    /\ magi = 35000
    /\ household_size = 2
    /\ \E i \in Returned : calls[i].rec.eligibility_tier = "csr_87"
    /\ \E lo, hi \in ComparedIncomes(household_size) :
           /\ lo < magi /\ magi < hi
           /\ TierOf(lo, household_size) = "csr_94"
           /\ TierOf(hi, household_size) = "csr_73"

\* C22: in every returned recommendation the tier that
\* determine_eligibility_tier gives the reported fpl_percentage (the
\* percentage rounded to one decimal, held in tenths) is the reported tier.
C22_ReportedPercentageGivesReportedTier ==
    \A i \in Returned :
        determine_eligibility_tier(Pct(calls[i].rec.fpl_percentage, 10)).tier
            = calls[i].rec.eligibility_tier

(***************************************************************************)
(* Claims about the optimizer, checked under Spec.                         *)
(***************************************************************************)
AuditedCall == last_call.op \in {"calculate_magi", "get_optimization_recommendations"}

\* C4: a calculate_magi or get_optimization_recommendations call whose audit
\* insert (magi_calculations, tax_optimization_actions) failed still returns
\* its result to the caller.
C4_AuditFailureKeepsResult ==
    (AuditedCall /\ last_call.failed_insert # "none") =>
        /\ last_call.outcome = "returned"
        /\ last_call.op = "calculate_magi" => last_call.result # NoCalculation
        /\ last_call.op = "get_optimization_recommendations" => last_call.result # NoRecommendations

\* the rows calculate_magi(tax_year_id, year) is specified to aggregate
ClaimProperties(t) == { i \in DOMAIN rental_properties : rental_properties[i].tax_year_id = t }
ClaimIncome(t, y) == { r \in rental_income : r.property_id \in ClaimProperties(t) /\ r.year = y }
ClaimExpenses(t, y) ==
    { i \in DOMAIN rental_expenses :
        rental_expenses[i].property_id \in ClaimProperties(t) /\ rental_expenses[i].year = y }

\* the example of the specification: twelve months of rent 3,000 with no
\* vacancy, expenses of 10,000, one property depreciating by 5,000
ExampleTaxYears == << [year |-> 2026, filing_status |-> "single", target_program |-> "medicaid"] >>
ExampleProperties == << [tax_year_id |-> 1, annual_depreciation |-> 5000] >>
ExampleIncome ==
    { [property_id |-> 1, year |-> 2026, month |-> m, gross_rent |-> 3000,
       vacancy_loss |-> 0, other_income |-> 0] : m \in 1..12 }
ExampleExpenses ==
    << [property_id |-> 1, year |-> 2026, category |-> "repairs", amount |-> 6000],
       [property_id |-> 1, year |-> 2026, category |-> "insurance", amount |-> 4000] >>

\* C5: every MAGICalculation that calculate_magi returns has total_expenses =
\* the expense amounts of the property set and year + the properties' annual
\* depreciation, net = gross - vacancy loss + other income - total_expenses,
\* headroom = threshold - net, and on_track exactly when net <= threshold;
\* and the example nets 21,000.
C5_MagiCalculationInvariant ==
    /\ (last_call.op = "calculate_magi" /\ last_call.outcome = "returned") =>
          LET c == last_call.result
              t == last_call.tax_year_id
              y == last_call.year
              gross == SumField(ClaimIncome(t, y), "gross_rent")
              vacancy == SumField(ClaimIncome(t, y), "vacancy_loss")
              other == SumField(ClaimIncome(t, y), "other_income")
          IN  /\ c.gross_rental_income = gross
              /\ c.other_income = other
              /\ c.total_expenses = SumAt(rental_expenses, ClaimExpenses(t, y), "amount")
                                    + SumAt(rental_properties, ClaimProperties(t), "annual_depreciation")
              /\ c.net_rental_income = gross - vacancy + other - c.total_expenses
              /\ c.magi = c.net_rental_income
              /\ c.headroom = c.threshold - c.net_rental_income
              /\ c.on_track <=> (c.net_rental_income <= c.threshold)
    /\ LET e == magi_calculation(ExampleTaxYears, ExampleProperties, ExampleIncome, ExampleExpenses, 1, 2026)
       IN  e.gross_rental_income = 36000 /\ e.total_expenses = 15000 /\ e.net_rental_income = 21000

\* a calculation over rent with vacancy, an expense and depreciation
C5_Witness ==
    /\ last_call.op = "calculate_magi"
    /\ last_call.outcome = "returned"
    /\ last_call.result.gross_rental_income = 45000
    /\ last_call.result.total_expenses = 15000
    /\ last_call.result.net_rental_income = 45000 - 4500 - 15000

\* C8: the list get_optimization_recommendations returns is in priority
\* order: the priorities never decrease along the list.
C8_PriorityOrder ==
    (last_call.op = "get_optimization_recommendations" /\ last_call.outcome = "returned") =>
        \A k \in 1..(Len(last_call.result) - 1) :
            last_call.result[k].priority <= last_call.result[k + 1].priority

\* C9: every stored expense row has a Schedule E category, and a
\* record_expense call with any other category fails with the validation
\* error and writes no row.
C9_InvalidCategoryRejected ==
    /\ \A i \in DOMAIN rental_expenses : rental_expenses[i].category \in DOMAIN SCHEDULE_E_CATEGORIES
    /\ (last_call.op = "record_expense" /\ last_call.category \notin DOMAIN SCHEDULE_E_CATEGORIES) =>
          /\ last_call.outcome = "ValueError"
          /\ last_call.rows_written = 0

\* a rejected call, made when the table already held a row
C9_Witness ==
    /\ last_call.op = "record_expense"
    /\ last_call.category = "entertainment"
    /\ last_call.outcome = "ValueError"
    /\ Len(rental_expenses) >= 1

\* C10: no table holds a negative amount (gross rent, other income, expense
\* amount, purchase price, asset value).
C10_NoNegativeAmountStored ==
    /\ \A r \in rental_income : r.gross_rent >= 0 /\ r.other_income >= 0
    /\ \A i \in DOMAIN rental_expenses : rental_expenses[i].amount >= 0
    /\ \A i \in DOMAIN rental_properties : rental_properties[i].purchase_price >= 0
    /\ \A i \in DOMAIN asset_tracking : asset_tracking[i].current_value >= 0

\* C18: calculate_magi does not clamp: for a tax year without properties
\* gross income, vacancy loss, other income, total expenses and net are all
\* 0; and when expenses plus depreciation exceed the income, the net and the
\* MAGI are the negative difference, headroom = threshold - net is above the
\* threshold, and on_track is true.
C18_NegativeNetPropagates ==
    (last_call.op = "calculate_magi" /\ last_call.outcome = "returned") =>
        LET c == last_call.result
            t == last_call.tax_year_id
            y == last_call.year
            income == SumField(ClaimIncome(t, y), "gross_rent")
                      - SumField(ClaimIncome(t, y), "vacancy_loss")
                      + SumField(ClaimIncome(t, y), "other_income")
            outgo == SumAt(rental_expenses, ClaimExpenses(t, y), "amount")
                     + SumAt(rental_properties, ClaimProperties(t), "annual_depreciation")
        IN  /\ ClaimProperties(t) = {} =>
                  /\ SumField(ClaimIncome(t, y), "vacancy_loss") = 0
                  /\ c.gross_rental_income = 0 /\ c.other_income = 0
                  /\ c.total_expenses = 0 /\ c.net_rental_income = 0 /\ c.magi = 0
            /\ outgo > income =>
                  /\ c.net_rental_income = income - outgo
                  /\ c.net_rental_income < 0
                  /\ c.magi = c.net_rental_income
                  /\ c.headroom = c.threshold - c.net_rental_income
                  /\ c.headroom > c.threshold
                  /\ c.on_track

\* a property depreciating by 5,000 with an expense of 10,000 and no income
C18_Witness ==
    /\ last_call.op = "calculate_magi"
    /\ last_call.outcome = "returned"
    /\ last_call.result.gross_rental_income = 0
    /\ last_call.result.net_rental_income = 0 - 15000
    /\ last_call.result.headroom = last_call.result.threshold + 15000
    /\ last_call.result.on_track

\* the key of an income record, and the rent on record for a key (0 when
\* the month was never recorded)
IncomeKey(r) == <<r.property_id, r.year, r.month>>
RentOnRecord(p, y, mo) ==
    LET rows == { r \in rental_income : IncomeKey(r) = <<p, y, mo>> }
    IN  IF rows = {} THEN 0 ELSE (CHOOSE r \in rows : TRUE).gross_rent

\* C21: the income table holds at most one record per (property, year,
\* month); a record_rental_income call leaves its record in the table and
\* removes at most the earlier record of the same key; calculate_magi's
\* gross income counts each property-month's rent on record once; and a
\* record_expense call that returns has added one row.
C21_OneIncomeRecordPerMonth ==
    /\ \A r1, r2 \in rental_income : IncomeKey(r1) = IncomeKey(r2) => r1 = r2
    /\ last_call.op = "record_rental_income" =>
          /\ last_call.result \in rental_income
          /\ Cardinality(last_call.replaced) <= 1
          /\ \A r \in last_call.replaced :
                IncomeKey(r) = IncomeKey(last_call.result) /\ r \notin rental_income
    /\ (last_call.op = "calculate_magi" /\ last_call.outcome = "returned") =>
          LET months == { [property_id |-> p, month |-> mo,
                           gross_rent |-> RentOnRecord(p, last_call.year, mo)] :
                          p \in ClaimProperties(last_call.tax_year_id), mo \in Months }
          IN  last_call.result.gross_rental_income = SumField(months, "gross_rent")
    /\ (last_call.op = "record_expense" /\ last_call.outcome = "returned") =>
          last_call.rows_written = 1

\* a month recorded at 18,000 is recorded again at 45,000: one record remains
C21_Witness ==
    /\ last_call.op = "record_rental_income"
    /\ last_call.result.gross_rent = 45000
    /\ \E r \in last_call.replaced : r.gross_rent = 18000
    /\ Cardinality(rental_income) = 1

\* the entries of a recommendation list that report the MAGI's range
StatusTypes ==
    { "COVERAGE_GAP_WARNING", "OPTIMAL_RANGE", "GOOD_BUT_WATCH", "CSR_87_RANGE", "NO_CSR", "NO_SUBSIDIES" }

\* C23: the list get_optimization_recommendations returns holds exactly one
\* status entry, and for a single-person household it agrees with the
\* engine's tier of the same MAGI: COVERAGE_GAP_WARNING iff coverage_gap,
\* OPTIMAL_RANGE or GOOD_BUT_WATCH iff csr_94, CSR_87_RANGE iff csr_87,
\* NO_CSR iff subsidy_only, NO_SUBSIDIES iff no_subsidy; no MAGI of a
\* cost-sharing tier is reported as NO_CSR.
C23_DollarAndPercentageBandsAgree ==
    (last_call.op = "get_optimization_recommendations" /\ last_call.outcome = "returned") =>
        LET result == last_call.result
            m == last_call.magi_calculations[1].magi
            tier == TierOf(m, 1)
            status == { k \in DOMAIN result : result[k].action_type \in StatusTypes }
        IN  /\ Cardinality(status) = 1
            /\ \A k \in status :
                  LET a == result[k].action_type
                  IN  /\ (a = "COVERAGE_GAP_WARNING") <=> (tier = "coverage_gap")
                      /\ (a \in {"OPTIMAL_RANGE", "GOOD_BUT_WATCH"}) <=> (tier = "csr_94")
                      /\ (a = "CSR_87_RANGE") <=> (tier = "csr_87")
                      /\ (a = "NO_CSR") <=> (tier = "subsidy_only")
                      /\ (a = "NO_SUBSIDIES") <=> (tier = "no_subsidy")
                      /\ tier \in {"csr_94", "csr_87", "csr_73"} => a # "NO_CSR"

(***************************************************************************)
(* Claims about asset tracking, checked under AssetSpec.                   *)
(***************************************************************************)
CheckedAssets == last_call.op = "check_asset_eligibility" /\ last_call.outcome = "returned"

\* of THRESHOLDS_2025's programs only medicaid defines asset limits; the ACA
\* programs have asset_limit None
AssetTested(target_program) == target_program = "medicaid"

\* C13: check_asset_eligibility answers under_limit = true, whatever the
\* countable total, for a tax year whose target program defines no asset
\* limit; for an asset-tested program the countable total is compared with
\* that program's limit for the filing status.
C13_NoAssetLimitMeansUnderLimit ==
    CheckedAssets =>
        LET tax_year == tax_years[last_call.tax_year_id]
            summary == last_call.result
        IN  IF AssetTested(tax_year.target_program)
            THEN /\ summary.asset_limit = MedicaidAssetLimit(tax_year.filing_status)
                 /\ summary.under_limit <=> (summary.total_countable <= summary.asset_limit)
            ELSE summary.under_limit

\* the rows of the tax year, by position, and those flagged as not countable
TrackedAssets(t) == { i \in DOMAIN asset_tracking : asset_tracking[i].tax_year_id = t }
FlaggedExempt(a) == "is_countable" \in DOMAIN a /\ a.is_countable = FALSE
Occurrences(rows, a) == Cardinality({ k \in DOMAIN rows : rows[k] = a })

\* C14: in every AssetSummary the countable and exempt lists partition the
\* tax year's tracked assets: each tracked row is in exactly one list, the
\* exempt list when its flag says not countable, the countable list when the
\* flag says countable or is absent; total_countable + total_exempt is the
\* sum of all tracked values; under_limit holds exactly when
\* total_countable <= asset_limit.
C14_AssetSummaryPartition ==
    CheckedAssets =>
        LET summary == last_call.result
            ids == TrackedAssets(last_call.tax_year_id)
            countable_ids == { i \in ids : ~FlaggedExempt(asset_tracking[i]) }
        IN  /\ \A k \in DOMAIN summary.countable_assets : ~FlaggedExempt(summary.countable_assets[k])
            /\ \A k \in DOMAIN summary.exempt_assets : FlaggedExempt(summary.exempt_assets[k])
            /\ Len(summary.countable_assets) + Len(summary.exempt_assets) = Cardinality(ids)
            /\ \A i \in ids :
                  Occurrences(summary.countable_assets, asset_tracking[i])
                  + Occurrences(summary.exempt_assets, asset_tracking[i])
                  = Cardinality({ j \in ids : asset_tracking[j] = asset_tracking[i] })
            /\ summary.total_countable = SumAt(asset_tracking, countable_ids, "current_value")
            /\ summary.total_countable + summary.total_exempt = SumAt(asset_tracking, ids, "current_value")
            /\ summary.under_limit <=> (summary.total_countable <= summary.asset_limit)

\* a summary over a row without the flag, a countable row and an exempt row
C14_Witness ==
    /\ CheckedAssets
    /\ \E k \in DOMAIN last_call.result.countable_assets :
           "is_countable" \notin DOMAIN last_call.result.countable_assets[k]
    /\ last_call.result.total_countable = 700 + 1200
    /\ last_call.result.total_exempt = 1900
    /\ last_call.result.under_limit

\* C15: no asset is stored, or placed in the exempt list of an
\* AssetSummary, as exempt (is_countable = false) without an exempt reason.
C15_ExemptHasReason ==
    /\ \A i \in DOMAIN asset_tracking :
          FlaggedExempt(asset_tracking[i]) => asset_tracking[i].exempt_reason # None
    /\ CheckedAssets =>
          \A k \in DOMAIN last_call.result.exempt_assets :
              last_call.result.exempt_assets[k].exempt_reason # None

(***************************************************************************)
(* Claims about concurrent callers, checked under TaxYearSpec.             *)
(***************************************************************************)
\* C20: whatever the callers' select and insert steps interleave to, the
\* tax_years table holds at most one record per year; and a call that found
\* a record for its year wrote nothing and returned a record of the table.
C20_OneRecordPerYear ==
    /\ \A y \in Years : Cardinality({ i \in DOMAIN tax_years : tax_years[i].year = y }) <= 1
    /\ \A c \in Callers :
          (in_flight[c].pc = "idle" /\ in_flight[c].existed) =>
              /\ in_flight[c].rows_written = 0
              /\ \E i \in DOMAIN tax_years : tax_years[i] = in_flight[c].result

=============================================================================
